---- MODULE Spec2Model ----
(***************************************************************************)
(* Model of src/components/crawler/crawler.worker.js: the CrawlerWorker    *)
(* admission path (archive), the per-tenant crawler sessions (run,         *)
(* launchCrawler), the 'crawled' pipeline (addSetItem) and the SIGUSR2     *)
(* reset, over a Redis store.                                              *)
(*                                                                         *)
(* One action is one stretch of code between two awaits, with the Redis    *)
(* commands it sends applied to the store in sending order.  Time is not   *)
(* counted: the 30 s expiry of a running-<uuid> key is the action Expire,  *)
(* which may happen at any moment after the key was set.                   *)
(***************************************************************************)
EXTENDS Naturals, Integers, Sequences, FiniteSets, TLC

\* ------------------------------------------------------------------ bounds
MaxCalls == 2

\* ------------------------------------------------------------------ inputs
Tenants == {"t1", "t2"}
UUIDs == {"u1", "u2"}
URLs == {"a", "b"}

PidOf(u) == IF u = "u1" THEN "p1" ELSE "p2"
Pids == {PidOf(u) : u \in UUIDs}

\* The options objects archive() is called with.
Requests ==
    {[listingUUID |-> u, listingURL |-> l, clientId |-> c, listingPid |-> PidOf(u)] :
        u \in UUIDs, l \in URLs, c \in Tenants}

Calls == 1..MaxCalls
NoReq == [listingUUID |-> "-", listingURL |-> "-", clientId |-> "-", listingPid |-> "-"]
NoEntry == <<>>
NoSession == 0

\* The hash userConfig: t1 has no entry (HGET returns null), t2 allows two.
Null == [null |-> TRUE]
UserConfigHash == [c \in Tenants |-> IF c = "t2" THEN [crawlerLimit |-> 2] ELSE Null]

VARIABLES
    running,          \* the uuids u whose key running-<u> exists
    queued,           \* the hash queued: field clientId -> "<uuid> <url>"
    crawlersZ,        \* the sorted set crawlers: member clientId -> score (0: no member)
    archives,         \* the hash archives: field listingPid -> stored record
    recent_listings,  \* the set recent_listings
    crawlers,         \* this.crawlers: clientId -> session handle
    sessions,         \* the PlaywrightCrawler objects, by the call that launched them
    captures,         \* every request run() handed to a session, with how far it got
    calls,            \* the archive() invocations: position and locals
    nextCall,         \* number of the next archive() invocation
    expired           \* history: the uuids whose key is gone because its 30 s passed

vars == <<running, queued, crawlersZ, archives, recent_listings, crawlers, sessions,
          captures, calls, nextCall, expired>>

store == <<running, queued, crawlersZ, archives, recent_listings>>

\* ----------------------------------------------------------------- strings
\* `${listingUUID} ${listingURL}` as the sequence of its tokens.
Entry(u, l) == <<u, " ", l>>

RECURSIVE SplitFrom(_, _, _)
SplitFrom(s, k, cur) ==
    IF k > Len(s) THEN <<cur>>
    ELSE IF s[k] = " " THEN <<cur>> \o SplitFrom(s, k + 1, <<>>)
    ELSE SplitFrom(s, k + 1, Append(cur, s[k]))

\* m.split(' '): the pieces between the spaces.
Split(s) == SplitFrom(s, 1, <<>>)

\* m.split(' ')[k]; a piece of one token is that token.
Piece(s, k) ==
    LET p == Split(s) IN
    IF k > Len(p) THEN "undefined"
    ELSE IF Len(p[k]) = 1 THEN p[k][1] ELSE p[k]

EntryUuid(m) == Piece(m, 1)
EntryUrl(m) == Piece(m, 2)

\* ------------------------------------------------------------------- store
\* userConfig?.crawlerLimit || 1
CrawlerLimit(c) ==
    IF UserConfigHash[c] = Null THEN 1 ELSE UserConfigHash[c].crawlerLimit

\* HVALS queued (the clientId passed as a second argument is not part of the command)
HVALS == {queued[c] : c \in {t \in Tenants : queued[t] # NoEntry}}

\* HKEYS queued
HKEYS == {c \in Tenants : queued[c] # NoEntry}

\* ------------------------------------------------------------------- state
\* addSetItem(multi, 'recent_listings', ..., 10)
maxSize == 10

NoSess == [state |-> "none", uuids |-> {}]
NoCall == [pc |-> "idle", options |-> NoReq, numberOfCrawlers |-> 0,
           results0 |-> {}, results1 |-> {}, enqueued |-> FALSE, found |-> "-"]

\* A new CrawlerWorker over an empty store, but for recent_listings.
InitWith(ledger) ==
    /\ running = {}
    /\ queued = [c \in Tenants |-> NoEntry]
    /\ crawlersZ = [c \in Tenants |-> 0]
    /\ archives = [p \in Pids |-> Null]
    /\ recent_listings = ledger
    /\ crawlers = [c \in Tenants |-> NoSession]
    /\ sessions = [s \in Calls |-> NoSess]
    /\ captures = {}
    /\ calls = [i \in Calls |-> NoCall]
    /\ nextCall = 1
    /\ expired = {}

Init == InitWith({})

\* recent_listings as k earlier events left it.
Seed(k) == {<<"old", j, "-", "-">> : j \in 1..k}

\* A new CrawlerWorker over a store whose recent_listings is one short of maxSize,
\* or holds maxSize members.
LedgerInit == \E k \in {maxSize - 1, maxSize} : InitWith(Seed(k))

\* A new CrawlerWorker over the store an earlier process left after a reset: the
\* reset deleted the lock keys and the worker counts, and the entry "u2 a" that a
\* call had put under a tenant's field of queued is still there.
QueuedInit ==
    /\ running = {}
    /\ \E c \in Tenants :
           queued = [t \in Tenants |-> IF t = c THEN Entry("u2", "a") ELSE NoEntry]
    /\ crawlersZ = [c \in Tenants |-> 0]
    /\ archives = [p \in Pids |-> Null]
    /\ recent_listings = {}
    /\ crawlers = [c \in Tenants |-> NoSession]
    /\ sessions = [s \in Calls |-> NoSess]
    /\ captures = {}
    /\ calls = [i \in Calls |-> NoCall]
    /\ nextCall = 1
    /\ expired = {}

\* The running-<u> keys of `us` deleted.
AfterDEL(us) == running \ us

\* The requests a session holds and has not handled yet.
inflight == {cap \in captures : cap.stage = "inflight"}

\* A capture moved to another stage.
Staged(cap, stage) == (captures \ {cap}) \cup {[cap EXCEPT !.stage = stage]}

\* A call that has returned keeps its options and what it found, not its locals.
Returned(call, pc) ==
    [call EXCEPT !.pc = pc, !.numberOfCrawlers = 0, !.results0 = {}, !.results1 = {}]

\* ---------------------------------------------------------------- archive
\* archive(options) up to its first await: GET running-<listingUUID>.  A failed
\* command (ok = FALSE) rejects the awaited promise and with it the call.
ArchiveGet(r, ok) ==
    /\ nextCall <= MaxCalls
    /\ nextCall' = nextCall + 1
    /\ calls' = [calls EXCEPT ![nextCall] =
            [NoCall EXCEPT !.options = r,
                           !.found = IF ~ok THEN "-"
                                     ELSE IF r.listingUUID \in running THEN "present"
                                     ELSE IF r.listingUUID \in expired THEN "expired"
                                     ELSE "absent",
                           !.pc = IF ~ok THEN "error"
                                  ELSE IF r.listingUUID \in running THEN "enqueue"
                                  ELSE "config"]]
    /\ UNCHANGED <<store, crawlers, sessions, captures, expired>>

\* HGET userConfig clientId, then ZSCORE crawlers clientId.
ArchiveConfig(i, ok) ==
    /\ calls[i].pc = "config"
    /\ calls' = [calls EXCEPT ![i].pc = IF ok THEN "set" ELSE "error",
                              ![i].numberOfCrawlers =
                                  IF ok THEN crawlersZ[calls[i].options.clientId] ELSE 0]
    /\ UNCHANGED <<store, crawlers, sessions, captures, nextCall, expired>>

\* SET running-<listingUUID> <date> EX 30
ArchiveSet(i, ok) ==
    /\ calls[i].pc = "set"
    /\ calls' = [calls EXCEPT ![i].pc = IF ok THEN "exec" ELSE "error"]
    /\ running' = IF ok THEN running \cup {calls[i].options.listingUUID} ELSE running
    /\ expired' = IF ok THEN expired \ {calls[i].options.listingUUID} ELSE expired
    /\ UNCHANGED <<queued, crawlersZ, archives, recent_listings, crawlers, sessions,
                   captures, nextCall>>

\* multi: HVALS queued, HKEYS queued; exec.
ArchiveExec(i, ok) ==
    /\ calls[i].pc = "exec"
    /\ calls' = [calls EXCEPT ![i].pc = IF ok THEN "drain" ELSE "error",
                              ![i].results0 = IF ok THEN HVALS ELSE {},
                              ![i].results1 = IF ok THEN HKEYS ELSE {}]
    /\ UNCHANGED <<store, crawlers, sessions, captures, nextCall, expired>>

\* Array.from(new Set([...results[0], `${listingUUID} ${listingURL}`])).filter(url => url)
Urls(i) ==
    {m \in calls[i].results0 \cup
            {Entry(calls[i].options.listingUUID, calls[i].options.listingURL)} :
        m # <<>>}

\* The requests run() builds from urlMap for call i: each url with the options of
\* call i as userData (uuid is kept to tell the items of a batch apart).
Batch(s, i, urlMap) ==
    {[sess |-> s, call |-> i, uuid |-> EntryUuid(m), url |-> EntryUrl(m),
      stage |-> "inflight"] : m \in urlMap}

BatchUuids(urlMap) == {EntryUuid(m) : m \in urlMap}

\* run(crawler, urlMap, options) up to its first await.  A crawler that is running
\* gets the requests added, and the finally block deletes the batch's keys at once;
\* an idle one starts a run, whose end is RunEnds or RunThrows.
run(s, urlMap, i, ok) ==
    /\ captures' = captures \cup Batch(s, i, urlMap)
    /\ IF sessions[s].state = "running"
       THEN /\ sessions' = sessions
            /\ running' = IF ok THEN AfterDEL(BatchUuids(urlMap)) ELSE running
       ELSE /\ sessions' = [sessions EXCEPT ![s] =
                    [state |-> "running", uuids |-> BatchUuids(urlMap)]]
            /\ UNCHANGED running

\* results[1].map(key => redis.HDEL(`queued`, key))
AfterHDEL(keys) == [c \in Tenants |-> IF c \in keys THEN NoEntry ELSE queued[c]]

\* !crawlers[clientId], or else !numberOfCrawlers || numberOfCrawlers < limit
MustLaunch(i) ==
    LET c == calls[i].options.clientId IN
    \/ crawlers[c] = NoSession
    \/ calls[i].numberOfCrawlers = 0
    \/ calls[i].numberOfCrawlers < CrawlerLimit(c)

\* After the exec: the HDELs, then the choice of the session.  launchCrawler builds
\* the crawler and sends ZINCRBY crawlers 1 clientId; its result is awaited.  With
\* no launch, run() is entered in the same stretch.
ArchiveDrain(i, ok) ==
    LET c == calls[i].options.clientId IN
    /\ calls[i].pc = "drain"
    /\ queued' = IF ok THEN AfterHDEL(calls[i].results1) ELSE queued
    /\ IF MustLaunch(i)
       THEN /\ sessions' = [sessions EXCEPT ![i] = [state |-> "idle", uuids |-> {}]]
            /\ crawlersZ' = IF ok THEN [crawlersZ EXCEPT ![c] = @ + 1] ELSE crawlersZ
            /\ calls' = [calls EXCEPT ![i].pc = "assign", ![i].results1 = {},
                                      ![i].numberOfCrawlers = 0]
            /\ UNCHANGED <<running, captures>>
       ELSE /\ run(crawlers[c], Urls(i), i, ok)
            /\ calls' = [calls EXCEPT ![i] = Returned(calls[i], "done")]
            /\ UNCHANGED crawlersZ
    /\ UNCHANGED <<archives, recent_listings, crawlers, nextCall, expired>>

\* crawlers[clientId] = <the launched crawler>; run(crawlers[clientId], urls, options)
ArchiveAssign(i, ok) ==
    /\ calls[i].pc = "assign"
    /\ crawlers' = [crawlers EXCEPT ![calls[i].options.clientId] = i]
    /\ run(i, Urls(i), i, ok)
    /\ calls' = [calls EXCEPT ![i] = Returned(calls[i], "done")]
    /\ UNCHANGED <<queued, crawlersZ, archives, recent_listings, nextCall, expired>>

\* ArchiveEnqueue with a DEL of the lock it found.
ArchiveEnqueueReleases(i, ok) ==
    LET r == calls[i].options IN
    /\ calls[i].pc = "enqueue"
    /\ queued' = IF ok THEN [queued EXCEPT ![r.clientId] = Entry(r.listingUUID, r.listingURL)]
                 ELSE queued
    /\ running' = running \ {r.listingUUID}
    /\ calls' = [calls EXCEPT ![i].pc = "done", ![i].enqueued = ok]
    /\ UNCHANGED <<crawlersZ, archives, recent_listings, crawlers, sessions,
                   captures, nextCall, expired>>

\* The lock was found: redis.HSET(`queued`, clientId, `${listingUUID} ${listingURL}`),
\* not awaited, so the call returns whatever becomes of the command.
ArchiveEnqueue(i, ok) ==
    LET r == calls[i].options IN
    /\ calls[i].pc = "enqueue"
    /\ queued' = IF ok THEN [queued EXCEPT ![r.clientId] = Entry(r.listingUUID, r.listingURL)]
                 ELSE queued
    /\ calls' = [calls EXCEPT ![i].pc = "done", ![i].enqueued = ok]
    /\ UNCHANGED <<running, crawlersZ, archives, recent_listings, crawlers, sessions,
                   captures, nextCall, expired>>

\* --------------------------------------------------------------- sessions
\* requestHandler ran to its emitter.emit('crawled', { url, html, imageUrls, ...options }).
\* The handler of 'crawled' starts, and waits for saveAdToPages.
Crawled(cap) ==
    /\ cap \in inflight
    /\ sessions[cap.sess].state = "running"
    /\ captures' = Staged(cap, "crawled")
    /\ UNCHANGED <<store, crawlers, sessions, calls, nextCall, expired>>

\* The page could not be rendered (after maxRequestRetries): no event for it.
RenderFailed(cap) ==
    /\ cap \in inflight
    /\ sessions[cap.sess].state = "running"
    /\ captures' = Staged(cap, "failed")
    /\ UNCHANGED <<store, crawlers, sessions, calls, nextCall, expired>>

\* The finally block of run(): multi, a DEL running-<uuid> for each uuid of the
\* batch, exec.
Finally(s) ==
    /\ sessions' = [sessions EXCEPT ![s] = [state |-> "idle", uuids |-> {}]]
    /\ running' = AfterDEL(sessions[s].uuids)
    /\ UNCHANGED <<queued, crawlersZ, archives, recent_listings, crawlers, calls,
                   nextCall, expired>>

\* await crawler.run(...) returned: requestQueue.drop(), then the finally block.
RunEnds(s) ==
    /\ sessions[s].state = "running"
    /\ \A cap \in inflight : cap.sess # s
    /\ Finally(s)
    /\ UNCHANGED captures

\* RunThrows without the finally block: the keys of the batch stay.
RunThrowsKeepsLocks(s) ==
    /\ sessions[s].state = "running"
    /\ sessions' = [sessions EXCEPT ![s] = [state |-> "idle", uuids |-> {}]]
    /\ captures' = {IF cap.sess = s /\ cap.stage = "inflight"
                    THEN [cap EXCEPT !.stage = "aborted"] ELSE cap : cap \in captures}
    /\ UNCHANGED <<store, crawlers, calls, nextCall, expired>>

\* await crawler.run(...) threw: the catch logs, then the finally block.  What the
\* run had not handled yet is not handled.
RunThrows(s) ==
    /\ sessions[s].state = "running"
    /\ Finally(s)
    /\ captures' = {IF cap.sess = s /\ cap.stage = "inflight"
                    THEN [cap EXCEPT !.stage = "aborted"] ELSE cap : cap \in captures}

\* --------------------------------------------------------------- pipeline
\* A JavaScript value used as a number: the number, or NaN.
Num(n) == [nan |-> FALSE, num |-> n]
NaN == [nan |-> TRUE, num |-> 0]

\* multi.SCARD(setKey) queues the command and returns the multi, not the size of the
\* set: used as a number, an object is NaN.
SCARD(set) == NaN

\* currentSize < maxSize: false when currentSize is NaN.
Less(a, b) == ~a.nan /\ ~b.nan /\ a.num < b.num

\* currentSize - maxSize + 1
MembersToRemove(currentSize, max) ==
    IF currentSize.nan \/ max.nan THEN NaN ELSE Num(currentSize.num - max.num + 1)

\* for (let i = 0; i < membersToRemove; i++): the number of rounds.
Rounds(n) == IF Less(Num(0), n) THEN n.num ELSE 0

\* The sets n SPOPs may leave: any n members go.
AfterSPOP(set, n) ==
    IF n >= Cardinality(set) THEN {{}}
    ELSE {set \ gone : gone \in {g \in SUBSET set : Cardinality(g) = n}}

\* addSetItem with a second SADD, of the item without its createdAt.
addSetItemTwice(set, item, max) == {set \cup {item, <<item[1], 0, "-", "-">>}}

\* addSetItem(multi, setKey, item, maxSize): the sets the exec may leave.
addSetItem(set, item, max) ==
    LET currentSize == SCARD(set) IN
    IF Less(currentSize, Num(max)) THEN {set \cup {item}}
    ELSE {left \cup {item} :
            left \in AfterSPOP(set, Rounds(MembersToRemove(currentSize, Num(max))))}

\* The payload of the 'crawled' event of cap: { url, html, imageUrls, ...options }.
Payload(cap) == [url |-> cap.url, options |-> calls[cap.call].options]

\* JSON.stringify(recentListing) of toRecentListing(payload): { listingPid, metadata,
\* createdAt }; createdAt tells the events apart.
RecentListing(cap) == <<Payload(cap).options.listingPid, cap.call, cap.uuid, cap.url>>

\* The field of archives the record goes to.
ArchiveField(cap) == Payload(cap).options.listingPid

\* The value the awaited githubService.saveAdToPages(...) resolved with for the event.
gitUrl(cap) == <<"gitUrl", cap.call, cap.url>>

\* What the 'archived' event of cap carries: { ...payload, gitUrl }.
ArchivedEvent(cap) ==
    [url |-> cap.url, options |-> calls[cap.call].options, gitUrl |-> gitUrl(cap)]

\* Archived with the exec not awaited: 'archived' is emitted while the batch is
\* still to be applied.
ArchivedBeforeExec(cap) ==
    /\ cap \in captures
    /\ cap.stage = "crawled"
    /\ captures' = Staged(cap, "archived")
    /\ UNCHANGED <<store, crawlers, sessions, calls, nextCall, expired>>

\* The 'crawled' handler after saveAdToPages and toRecentListing: the multi
\* (HSET archives, addSetItem recent_listings) and emit('archived').
Archived(cap) ==
    /\ cap \in captures
    /\ cap.stage = "crawled"
    /\ archives' = [archives EXCEPT ![ArchiveField(cap)] = Payload(cap)]
    /\ recent_listings' \in addSetItem(recent_listings, RecentListing(cap), maxSize)
    /\ captures' = Staged(cap, "archived")
    /\ UNCHANGED <<running, queued, crawlersZ, crawlers, sessions, calls, nextCall, expired>>

\* An awaited promise of the 'crawled' handler rejected (saveAdToPages,
\* toRecentListing or multi.exec()): the handler ends there and emits nothing.  The
\* store had applied the batch (the reply of the exec was lost), or had not.
HandlerRejects(cap) ==
    /\ cap \in captures
    /\ cap.stage = "crawled"
    /\ \/ /\ archives' = [archives EXCEPT ![ArchiveField(cap)] = Payload(cap)]
          /\ recent_listings' \in addSetItem(recent_listings, RecentListing(cap), maxSize)
       \/ UNCHANGED <<archives, recent_listings>>
    /\ captures' = Staged(cap, "rejected")
    /\ UNCHANGED <<running, queued, crawlersZ, crawlers, sessions, calls, nextCall, expired>>

\* ------------------------------------------------------------ environment
\* Expire for a key set without EX: the 30 seconds pass and the key stays.
ExpireWithoutEX(u) ==
    /\ u \in running
    /\ u \notin expired
    /\ expired' = expired \cup {u}
    /\ UNCHANGED <<store, crawlers, sessions, captures, calls, nextCall>>

\* The 30 seconds of running-<u> have passed.
Expire(u) ==
    /\ u \in running
    /\ running' = running \ {u}
    /\ expired' = expired \cup {u}
    /\ UNCHANGED <<queued, crawlersZ, archives, recent_listings, crawlers, sessions,
                   captures, calls, nextCall>>

\* The key names of the store, as token sequences: running-<u> is <<"running", "-", u>>.
StoreKeys ==
    {<<"running", "-", u>> : u \in running}
        \cup (IF HKEYS # {} THEN {<<"queued">>} ELSE {})
        \cup (IF \E c \in Tenants : crawlersZ[c] > 0 THEN {<<"crawlers">>} ELSE {})
        \cup (IF \E p \in Pids : archives[p] # Null THEN {<<"archives">>} ELSE {})
        \cup (IF recent_listings # {} THEN {<<"recent_listings">>} ELSE {})
        \cup {<<"userConfig">>}

\* KEYS <prefix>*
KEYS(prefix) ==
    {k \in StoreKeys : Len(k) >= Len(prefix) /\ SubSeq(k, 1, Len(prefix)) = prefix}

\* process.on('SIGUSR2'): KEYS queued-*, KEYS running-*, then ZREMRANGEBYRANK crawlers
\* 0 -1 and a DEL of every key found.
SIGUSR2 ==
    LET queuedKeys == KEYS(<<"queued", "-">>)
        runningKeys == KEYS(<<"running", "-">>)
    IN
    /\ running' = AfterDEL({u \in UUIDs : <<"running", "-", u>> \in runningKeys})
    /\ queued' = IF <<"queued">> \in queuedKeys THEN [c \in Tenants |-> NoEntry] ELSE queued
    /\ crawlersZ' = [c \in Tenants |-> 0]
    /\ UNCHANGED <<archives, recent_listings, crawlers, sessions, captures, calls,
                   nextCall, expired>>

Live(pc) == pc \in {"config", "set", "exec", "drain", "assign", "enqueue"}

\* The process ends and a new one starts: this.crawlers is empty again, the crawlers,
\* the calls under way and the handlers under way are gone; the store stays.
Restart ==
    /\ crawlers' = [c \in Tenants |-> NoSession]
    /\ sessions' = [s \in Calls |->
            IF sessions[s].state = "none" THEN sessions[s] ELSE [state |-> "dead", uuids |-> {}]]
    /\ captures' = {IF cap.stage \in {"inflight", "crawled"}
                    THEN [cap EXCEPT !.stage = "lost"] ELSE cap : cap \in captures}
    /\ calls' = [i \in Calls |-> IF Live(calls[i].pc) THEN Returned(calls[i], "dead")
                                 ELSE calls[i]]
    /\ UNCHANGED <<store, nextCall, expired>>

\* ------------------------------------------------------------------- specs
ArchiveStep(ok) ==
    \/ \E r \in Requests : ArchiveGet(r, ok)
    \/ \E i \in Calls : ArchiveConfig(i, ok)
    \/ \E i \in Calls : ArchiveSet(i, ok)
    \/ \E i \in Calls : ArchiveExec(i, ok)
    \/ \E i \in Calls : ArchiveDrain(i, ok)
    \/ \E i \in Calls : ArchiveAssign(i, ok)
    \/ \E i \in Calls : ArchiveEnqueue(i, ok)

Next ==
    \/ ArchiveStep(TRUE)
    \/ \E cap \in captures : Crawled(cap)
    \/ \E cap \in captures : RenderFailed(cap)
    \/ \E s \in Calls : RunEnds(s)
    \/ \E s \in Calls : RunThrows(s)
    \/ \E cap \in captures : Archived(cap)
    \/ \E u \in UUIDs : Expire(u)
    \/ SIGUSR2
    \/ Restart

Spec == Init /\ [][Next]_vars

\* The same worker over a store that already holds recent listings.
LedgerSpec == LedgerInit /\ [][Next]_vars

\* The same worker over a store whose commands may fail.
NextFail ==
    \/ Next
    \/ ArchiveStep(FALSE)
    \/ \E cap \in captures : HandlerRejects(cap)

SpecFail == Init /\ [][NextFail]_vars

\* The store lets no key set with EX outlive its time.
FairSpec == Spec /\ \A u \in UUIDs : WF_vars(Expire(u))

\* The same worker over a store that holds a queued entry.
QueuedSpec == QueuedInit /\ [][Next]_vars

\* ------------------------------------------------------------------ claims
OwnEntry(i) == Entry(calls[i].options.listingUUID, calls[i].options.listingURL)

\* run() handed the item "<u> <l>" of call i's batch to a session.
Dispatched(i, u, l) == \E cap \in captures : cap.call = i /\ cap.uuid = u /\ cap.url = l

DispatchedOwn(i) == Dispatched(i, calls[i].options.listingUUID, calls[i].options.listingURL)

\* The sessions launchCrawler built for tenant c.
Launched(c) == {s \in Calls : sessions[s].state # "none" /\ calls[s].options.clientId = c}

NoQueue == [c \in Tenants |-> NoEntry]

\* C1: while the key running-<u> exists, at most one capture of u is in flight
\* (handed to a session by run() and neither completed nor failed).
C1_AtMostOneCaptureWhileLocked ==
    \A u \in running : Cardinality({cap \in inflight : cap.uuid = u}) <= 1

\* C2: an archive() call whose GET finds the lock goes to the enqueue branch; its
\* last step writes its "<uuid> <url>" under its clientId in queued and leaves the
\* lock keys, the worker counts, the sessions and what they were handed unchanged;
\* such a call never launches a session and is never handed to one.
C2_LockedCallOnlyEnqueues ==
    [][\A i \in Calls :
         /\ (calls[i].pc = "idle" /\ calls'[i].pc # "idle"
                /\ calls'[i].options.listingUUID \in running)
            => calls'[i].pc = "enqueue" /\ calls'[i].found = "present"
         /\ (calls[i].pc = "enqueue" /\ calls'[i].pc = "done")
            => /\ queued' = [queued EXCEPT ![calls[i].options.clientId] = OwnEntry(i)]
               /\ UNCHANGED <<running, crawlersZ, archives, recent_listings, crawlers,
                              sessions, captures>>
         /\ calls'[i].found = "present"
            => /\ sessions'[i].state = "none"
               /\ \A cap \in captures' : cap.call # i
               /\ calls'[i].pc \in {"enqueue", "done", "dead"}
      ]_vars

\* A call that found the lock has returned, and its entry is its tenant's queue entry.
C2_Witness ==
    \E i \in Calls :
        /\ calls[i].found = "present"
        /\ calls[i].pc = "done"
        /\ queued[calls[i].options.clientId] = OwnEntry(i)

\* C3: recent_listings never holds more than maxSize members, and an insert into a
\* ledger of maxSize or more members removes at least one of them.
C3_LedgerNeverExceedsMaxSize ==
    [][/\ Cardinality(recent_listings') <= maxSize
       /\ (Cardinality(recent_listings) >= maxSize /\ recent_listings' # recent_listings)
            => recent_listings \ recent_listings' # {}
      ]_vars

\* C4: the score of clientId in crawlers never exceeds the tenant's crawlerLimit.
C4_WorkerCountWithinLimit == \A c \in Tenants : crawlersZ[c] <= CrawlerLimit(c)

\* The captures whose 'crawled' handler ends in this step.
ArchivedNow == {cap \in captures : cap.stage = "crawled" /\ cap \notin captures'}

C6_ResetClearsEverything ==
    [][(running # {} /\ queued # NoQueue /\ SIGUSR2)
            => /\ running' = {}
               /\ queued' = NoQueue
               /\ crawlersZ' = [c \in Tenants |-> 0]
      ]_vars

\* C7: tenant t1 (crawlerLimit 1, no session): after archive(U1) then archive(U2) for
\* another listingUUID, both returned, one session was created for t1, U1 was
\* dispatched, U2 was not but is the queue entry of t1.
C7_SecondRequestQueues ==
    (/\ nextCall = 3
     /\ calls[1].pc = "done" /\ calls[2].pc = "done"
     /\ calls[1].options.clientId = "t1" /\ calls[2].options.clientId = "t1"
     /\ calls[1].options.listingUUID # calls[2].options.listingUUID
     /\ CrawlerLimit("t1") = 1
     /\ \A s \in Calls : sessions[s].state # "dead")
        => /\ Cardinality(Launched("t1")) = 1
           /\ DispatchedOwn(1)
           /\ ~(\E cap \in captures : cap.uuid = calls[2].options.listingUUID)
           /\ queued["t1"] = OwnEntry(2)

C9_DrainLeavesNoEntry ==
    [][/\ \A i \in Calls :
            (calls[i].pc = "drain" /\ calls'[i].pc \in {"assign", "done"})
                => queued'[calls[i].options.clientId] = NoEntry
       /\ \A c \in Tenants :
            (queued[c] = NoEntry /\ queued'[c] # NoEntry)
                => \E i \in Calls : /\ calls[i].pc = "enqueue" /\ calls'[i].pc = "done"
                                    /\ calls[i].options.clientId = c
      ]_vars

\* C10: with store commands that may fail, an archive() call that returned without an
\* error has enqueued its request or handed it to a session.
C10_NoSilentDrop ==
    \A i \in Calls : calls[i].pc = "done" => calls[i].enqueued \/ DispatchedOwn(i)

\* C11: when a run() ends, the session run having completed or thrown, no uuid of its
\* batch has its key running-<uuid> left; the same holds when run() added the batch
\* to a running session and returned.
C11_RunEndReleasesBatch ==
    [][/\ \A s \in Calls :
            (sessions[s].state = "running" /\ sessions'[s].state = "idle")
                => sessions[s].uuids \cap running' = {}
       /\ \A i \in Calls :
            (/\ calls[i].pc = "drain" /\ calls'[i].pc = "done"
             /\ sessions[crawlers[calls[i].options.clientId]].state = "running")
                => BatchUuids(Urls(i)) \cap running' = {}
      ]_vars

\* A run threw with a request of its batch not handled, and the key of that request's
\* uuid is gone though its 30 s have not passed.
C11_Witness ==
    \E cap \in captures :
        /\ cap.stage = "aborted"
        /\ sessions[cap.sess].state = "idle"
        /\ cap.uuid \notin running
        /\ cap.uuid \notin expired
        /\ crawlersZ[calls[cap.call].options.clientId] > 0

\* C12: the drain of a call reads and removes the queue entry of the call's clientId
\* only: what its exec returns is that tenant's entry and field, and its HDELs leave
\* the entry of every other tenant as it was.
C12_DrainOwnTenantOnly ==
    [][\A i \in Calls :
         LET c == calls[i].options.clientId IN
         /\ (calls[i].pc = "exec" /\ calls'[i].pc = "drain")
            => /\ calls'[i].results0 \subseteq {queued[c]} \ {NoEntry}
               /\ calls'[i].results1 \subseteq {c}
         /\ (calls[i].pc = "drain" /\ calls'[i].pc \in {"assign", "done"})
            => \A t \in Tenants \ {c} : queued'[t] = queued[t]
      ]_vars

\* C13: every capture run() hands to a session is tagged with the options of the
\* request that submitted its url: the payload's listingUUID is the uuid of the
\* batch item, its listingPid that listing's pid and its listingURL the item's url.
C13_TaggedWithOriginatingRequest ==
    \A cap \in captures :
        /\ Payload(cap).options.listingUUID = cap.uuid
        /\ Payload(cap).options.listingPid = PidOf(cap.uuid)
        /\ Payload(cap).options.listingURL = cap.url

\* C14: an entry leaves queued only in the drain step of a call whose exec had read
\* that same entry, so that it is part of the batch the call dispatches.
C14_RemovedOnlyIfDispatched ==
    [][\A c \in Tenants :
         (queued[c] # NoEntry /\ queued'[c] # queued[c] /\ queued'[c] = NoEntry)
            => \E i \in Calls :
                   /\ calls[i].pc = "drain" /\ calls'[i].pc \in {"assign", "done"}
                   /\ queued[c] \in Urls(i)
      ]_vars

\* C15: the target of every entry of queued is locked: the key running-<uuid> of the
\* entry's uuid exists.
C15_QueuedTargetIsLocked ==
    \A c \in Tenants : queued[c] # NoEntry => EntryUuid(queued[c]) \in running

\* C16: no two items of the batch a call dispatches have the same url.
C16_BatchDeduplicatedByUrl ==
    \A cap1, cap2 \in captures :
        (cap1.call = cap2.call /\ cap1.url = cap2.url) => cap1.uuid = cap2.uuid

\* The captures whose 'archived' event is emitted in this step.
EmittedNow == {cap \in ArchivedNow : [cap EXCEPT !.stage = "archived"] \in captures'}

\* C17: with store commands that may fail, the step that emits 'archived' for an
\* event leaves the event's payload under its listingPid in archives and the event's
\* listing in recent_listings; and whenever 'archived' has been emitted for an event,
\* archives has an entry under the event's listingPid.
C17_ArchivedAfterStoreBatch ==
    /\ [][\A cap \in EmittedNow :
             /\ archives'[ArchiveField(cap)] = Payload(cap)
             /\ RecentListing(cap) \in recent_listings'
         ]_vars
    /\ [](\A cap \in captures :
             cap.stage = "archived" => archives[ArchiveField(cap)] # Null)

\* 'archived' was emitted for one event, with its record stored, and the handler of
\* another event was rejected and emitted nothing.
C17_Witness ==
    \E cap, other \in captures :
        /\ cap.stage = "archived"
        /\ archives[ArchiveField(cap)] # Null
        /\ other.stage = "rejected"

\* C18: the record the handler of a 'crawled' event leaves under listingPid in
\* archives has the gitUrl of that event and equals the record 'archived' carries.
C18_StoredRecordHasGitUrl ==
    [][\A cap \in EmittedNow :
          /\ "gitUrl" \in DOMAIN archives'[ArchiveField(cap)]
          /\ archives'[ArchiveField(cap)] = ArchivedEvent(cap)
      ]_vars

\* The steps in which a run() deletes lock keys: the end of a session run, or the
\* return of a call that added its batch to a running session.
RunDeletes ==
    \/ \E s \in Calls : sessions[s].state = "running" /\ sessions'[s].state = "idle"
    \/ \E i \in Calls :
           /\ calls[i].pc = "drain" /\ calls'[i].pc = "done"
           /\ sessions[crawlers[calls[i].options.clientId]].state = "running"

\* C19: a step in which a run() deletes the key running-<u> leaves no capture of u
\* in flight in any session.
C19_LockDeletedOnlyWhenIdle ==
    [][RunDeletes
          => \A u \in running \ running' :
                 \A cap \in captures' : cap.stage = "inflight" => cap.uuid # u
      ]_vars

\* A call of tenant c launches a session in this step.
Launches(c) ==
    \E i \in Calls :
        /\ calls[i].pc = "drain" /\ calls'[i].pc = "assign"
        /\ calls[i].options.clientId = c

\* The worker count of c changes only by +1 in a launch for c, or to 0 in a reset.
CountFrame(c) ==
    crawlersZ'[c] # crawlersZ[c]
        => \/ Launches(c) /\ crawlersZ'[c] = crawlersZ[c] + 1
           \/ crawlersZ' = [t \in Tenants |-> 0] /\ running' = {}

\* C20: the worker count of a tenant changes only by +1 at a session launch for the
\* tenant and by the reset, which sets it to 0, so no other step lowers it; and when
\* the count has reached the tenant's crawlerLimit and the process holds a session
\* for the tenant, no archive() call launches another one.
C20_CountOnlyGrowsAndCaps ==
    [][\A c \in Tenants :
         /\ CountFrame(c)
         /\ (crawlersZ[c] >= CrawlerLimit(c) /\ crawlers[c] # NoSession) => ~Launches(c)
      ]_vars

====
